---- MODULE Spec2Model ----
(***************************************************************************)
(* Model of anemoi/graphs/utils.py: four pure helper functions.            *)
(*                                                                         *)
(*   get_nearest_neighbour, get_grid_reference_distance,                   *)
(*   add_margin, get_index_in_outer_join                                   *)
(*                                                                         *)
(* The state is the last call made: which function, its arguments, and     *)
(* how it ended (the value returned or the exception raised).  Each action *)
(* is one whole call.  Array elements are integers, which stand for        *)
(* exactly representable floats; torch/numpy/sklearn primitives are        *)
(* modelled by what they compute on such arrays.                           *)
(***************************************************************************)
EXTENDS Integers, Sequences, FiniteSets, TLC

\* ---------------------------------------------------------------- bounds
MaxLen == 2          \* points handed to add_margin
MaxCoord == 1        \* add_margin latitudes/longitudes range over 0..MaxCoord
MaxMargin == 2       \* margins range over -MaxMargin..MaxMargin
MaxRows == 3         \* rows M of the tensor of get_index_in_outer_join
MaxCols == 2         \* columns N of that tensor / length of the vector
MaxN == 4            \* points of a coordinate set
MaxLon == 1          \* longitudes of a coordinate set range over 0..MaxLon

VARIABLES pc, fn, lats, lons, margin, vector, tensor, coords_rad, mask, raised, ret

vars == <<pc, fn, lats, lons, margin, vector, tensor, coords_rad, mask, raised, ret>>

\* How a call ends: a returned value, or an exception that propagates.
Return(v) == [raised |-> "none", ret |-> v]
Raise(e) == [raised |-> e, ret |-> <<>>]

SeqsOfLen(S, n) == [1..n -> S]
SeqsUpTo(S, n) == UNION {SeqsOfLen(S, k) : k \in 0..n}

RECURSIVE Concatenate(_)
\* np.concatenate of a list of 1-d arrays
Concatenate(parts) ==
    IF parts = <<>> THEN <<>> ELSE Head(parts) \o Concatenate(Tail(parts))

\* ------------------------------------------------------------ add_margin
\* the iteration list [-1, 0, 1] of both loops
Signs == <<-1, 0, 1>>

\* the (lat_sign, lon_sign) pairs in the order the nested loops visit them,
\* with the longitude loop outside (a swapped-loop variant)
SignPairsLonOuter ==
    [k \in 1..(Len(Signs) * Len(Signs)) |->
        <<Signs[((k - 1) % Len(Signs)) + 1], Signs[((k - 1) \div Len(Signs)) + 1]>>]

\* the (lat_sign, lon_sign) pairs in the order the nested loops visit them:
\* for lat_sign in [-1, 0, 1]: for lon_sign in [-1, 0, 1]
SignPairs ==
    [k \in 1..(Len(Signs) * Len(Signs)) |->
        <<Signs[((k - 1) \div Len(Signs)) + 1], Signs[((k - 1) % Len(Signs)) + 1]>>]

\* array + scalar (numpy broadcasting)
AddScalar(xs, d) == [i \in 1..Len(xs) |-> xs[i] + d]

\* a variant that offsets the longitudes by the latitude sign
ExpandLonByLatSign(p_lats, p_lons, p_margin) ==
    <<Concatenate([k \in 1..Len(SignPairs) |-> AddScalar(p_lats, SignPairs[k][1] * p_margin)]),
      Concatenate([k \in 1..Len(SignPairs) |-> AddScalar(p_lons, SignPairs[k][1] * p_margin)])>>

\* lines 79-85: one shifted copy of lats and of lons per sign pair, concatenated
Expand(p_lats, p_lons, p_margin) ==
    <<Concatenate([k \in 1..Len(SignPairs) |-> AddScalar(p_lats, SignPairs[k][1] * p_margin)]),
      Concatenate([k \in 1..Len(SignPairs) |-> AddScalar(p_lons, SignPairs[k][2] * p_margin)])>>

\* a variant of the assertion that also rejects a zero margin
MarginPositive(p_margin) == p_margin > 0

\* line 75: assert margin >= 0
MarginNonNegative(p_margin) == p_margin >= 0

\* a variant without the special case
NeverZero(p_margin) == FALSE

\* line 76: if margin == 0
MarginIsZero(p_margin) == p_margin = 0

add_margin(p_lats, p_lons, p_margin) ==
    IF ~MarginNonNegative(p_margin) THEN Raise("AssertionError")
    ELSE IF MarginIsZero(p_margin) THEN Return(<<p_lats, p_lons>>)
    ELSE Return(Expand(p_lats, p_lons, p_margin))

\* ----------------------------------------------- get_index_in_outer_join
\* the values of tensor and vector elements
Values == {0, 1}

\* a variant that reduces a row with any instead of all
RowAny(row, v) == \E j \in 1..Len(v) : row[j] = v[j]

\* line 105, one row of torch.all(tensor == vector, axis=1): the vector is
\* broadcast against the row and the element-wise comparison reduced with all
RowAll(row, v) == \A j \in 1..Len(v) : row[j] = v[j]

\* line 105: the boolean mask over the rows of the tensor
MatchMask(v, t) == [i \in 1..Len(t) |-> RowAll(t[i], v)]

RECURSIVE WhereFrom(_, _)
WhereFrom(m, i) ==
    IF i > Len(m) THEN <<>>
    ELSE (IF m[i] THEN <<i - 1>> ELSE <<>>) \o WhereFrom(m, i + 1)

\* line 107, torch.where(mask)[0]: the 0-based indices of the true entries,
\* in increasing order
Where(m) == WhereFrom(m, 1)

\* a variant that converts a many-element index tensor to its first element
ToIntFirst(idx) == Return(idx[1])

\* line 107, int(tensor): defined for a tensor of exactly one element; any
\* other number of elements raises (ValueError or RuntimeError, by version)
ToInt(idx) == IF Len(idx) = 1 THEN Return(idx[1]) ELSE Raise("ConversionError")

get_index_in_outer_join(p_vector, p_tensor) ==
    LET m == MatchMask(p_vector, p_tensor) IN
    IF \E i \in 1..Len(m) : m[i] THEN ToInt(Where(m)) ELSE Return(-1)

\* ------------------------------------- nearest neighbours on the sphere
\* Coordinates are (lat, lon) pairs in units of pi/3 radians, so that the
\* haversine formula has exact rational values on them.
Lats == {0, 1}
Lons == 0..MaxLon
Grid == Lats \X Lons

\* 4 * sin^2(k * pi/6)
Sin2x4(k) == <<0, 1, 3, 4, 3, 1>>[(k % 6) + 1]

\* 2 * cos(lat * pi/3), for a latitude of -pi/3, 0 or pi/3
Cosx2(lat) == IF lat = 0 THEN 2 ELSE 1

\* line 25, metric="haversine": d = 2 asin(sqrt(h)) with
\*   h = sin^2(dlat/2) + cos(lat1) cos(lat2) sin^2(dlon/2).
\* A distance d is represented by 16 h = 16 sin^2(d/2), which is 0 exactly
\* when d is and grows strictly with d on [0, pi]: comparisons with zero,
\* orderings and maxima of distances are those of their representations.
Haversine(p, q) ==
    4 * Sin2x4(p[1] - q[1]) + Cosx2(p[1]) * Cosx2(q[1]) * Sin2x4(p[2] - q[2])

\* the masks handed to the calls: none, or a tensor of one or two dimensions
MaskCols == {1, 2}
MaskShapes ==
    {<<r>> : r \in 0..MaxN} \cup {<<r, c>> : r \in 0..MaxN, c \in MaskCols}
NumEl(shape) == IF Len(shape) = 1 THEN shape[1] ELSE shape[1] * shape[2]
MaskData(n) == {[i \in 1..n |-> TRUE], [i \in 1..n |-> i > 1]}
NoMask == [given |-> FALSE, shape |-> <<>>, data |-> <<>>]
Masks ==
    {NoMask} \cup
    UNION {{[given |-> TRUE, shape |-> sh, data |-> d] : d \in MaskData(NumEl(sh))} :
              sh \in MaskShapes}

\* a variant of the assertion that compares the number of rows only
MaskRowsMatch(p_coords, p_mask) ==
    (~p_mask.given) \/ (p_mask.shape[1] = Len(p_coords))

\* line 23: mask is None or mask.shape == (coords_rad.shape[0], 1)
MaskShapeOk(p_coords, p_mask) ==
    (~p_mask.given) \/ (p_mask.shape = <<Len(p_coords), 1>>)

RECURSIVE KeepFrom(_, _, _)
KeepFrom(xs, keep, i) ==
    IF i > Len(xs) THEN <<>>
    ELSE (IF keep[i] THEN <<xs[i]>> ELSE <<>>) \o KeepFrom(xs, keep, i + 1)

\* a variant that drops the masked-out nodes before fitting
FitInputMasked(p_coords, p_mask) ==
    IF p_mask.given THEN KeepFrom(p_coords, p_mask.data, 1) ELSE p_coords

\* line 27: the array handed to fit is coords_rad, whatever the mask
FitInput(p_coords, p_mask) == p_coords

\* lines 25-27, NearestNeighbors(...).fit(X): the fitted object keeps X;
\* sklearn rejects an array of 0 samples with a ValueError
Fit(X) ==
    IF Len(X) = 0 THEN Raise("ValueError")
    ELSE Return([metric |-> "haversine", fit_X |-> X])

get_nearest_neighbour(p_coords, p_mask) ==
    IF ~MaskShapeOk(p_coords, p_mask) THEN Raise("AssertionError")
    ELSE Fit(FitInput(p_coords, p_mask))

\* line 50: n_neighbors=2
n_neighbors == 2

RemoveAt(xs, i) == SubSeq(xs, 1, i - 1) \o SubSeq(xs, i + 1, Len(xs))

RECURSIVE KSmallest(_, _)
\* the k smallest elements of ds, in increasing order
KSmallest(ds, k) ==
    IF k = 0 \/ ds = <<>> THEN <<>>
    ELSE LET i == CHOOSE i \in 1..Len(ds) : \A j \in 1..Len(ds) : ds[i] <= ds[j]
         IN  <<ds[i]>> \o KSmallest(RemoveAt(ds, i), k - 1)

\* line 50, kneighbors(Q, n_neighbors=k, return_distance=True): for each
\* query point the distances to its k nearest fitted points (itself included
\* when it is one of them), nearest first; sklearn raises a ValueError when
\* k exceeds the number of fitted points
KNeighbors(nn, Q, k) ==
    IF k > Len(nn.fit_X) THEN Raise("ValueError")
    ELSE Return([i \in 1..Len(Q) |->
            KSmallest([j \in 1..Len(nn.fit_X) |-> Haversine(Q[i], nn.fit_X[j])], k)])

IsPositive(d) == d > 0

\* line 51, dists[dists > 0]: the positive entries, row by row
Positive(dists) ==
    Concatenate([i \in 1..Len(dists) |-> SelectSeq(dists[i], IsPositive)])

\* a variant that takes the minimum
ArrayMin(xs) ==
    IF xs = <<>> THEN Raise("ValueError")
    ELSE Return(CHOOSE m \in {xs[i] : i \in 1..Len(xs)} :
                    \A i \in 1..Len(xs) : m <= xs[i])

\* a variant that answers 0 for an empty array
ArrayMaxOrZero(xs) ==
    IF xs = <<>> THEN Return(0)
    ELSE Return(CHOOSE m \in {xs[i] : i \in 1..Len(xs)} :
                    \A i \in 1..Len(xs) : m >= xs[i])

\* line 51, ndarray.max(): numpy raises a ValueError on an empty array
ArrayMax(xs) ==
    IF xs = <<>> THEN Raise("ValueError")
    ELSE Return(CHOOSE m \in {xs[i] : i \in 1..Len(xs)} :
                    \A i \in 1..Len(xs) : m >= xs[i])

get_grid_reference_distance(p_coords, p_mask) ==
    LET nearest_neighbours == get_nearest_neighbour(p_coords, p_mask) IN
    IF nearest_neighbours.raised # "none" THEN nearest_neighbours
    ELSE LET kn == KNeighbors(nearest_neighbours.ret, p_coords, n_neighbors) IN
         IF kn.raised # "none" THEN kn
         ELSE ArrayMax(Positive(kn.ret))

\* ------------------------------------------------------------ the calls
\* the arguments that a call does not take
NoMarginArgs == lats = <<>> /\ lons = <<>> /\ margin = 0
NoIndexArgs == vector = <<>> /\ tensor = <<>>
NoCoordArgs == coords_rad = <<>> /\ mask = NoMask

InitAddMargin ==
    /\ fn = "add_margin"
    /\ \E n \in 0..MaxLen :
          /\ lats \in SeqsOfLen(0..MaxCoord, n)
          /\ lons \in SeqsOfLen(0..MaxCoord, n)
    /\ margin \in (-MaxMargin)..MaxMargin
    /\ NoIndexArgs /\ NoCoordArgs

InitGetIndex ==
    /\ fn = "get_index_in_outer_join"
    /\ \E n \in 0..MaxCols :
          /\ vector \in SeqsOfLen(Values, n)
          /\ tensor \in SeqsUpTo(SeqsOfLen(Values, n), MaxRows)
    /\ NoMarginArgs /\ NoCoordArgs

InitGetNearestNeighbour ==
    /\ fn = "get_nearest_neighbour"
    /\ coords_rad \in SeqsUpTo(Grid, MaxN)
    /\ mask \in Masks
    /\ NoMarginArgs /\ NoIndexArgs

InitGetGridReferenceDistance ==
    /\ fn = "get_grid_reference_distance"
    /\ coords_rad \in SeqsUpTo(Grid, MaxN)
    /\ mask \in Masks
    /\ NoMarginArgs /\ NoIndexArgs

Init ==
    /\ pc = "called" /\ raised = "none" /\ ret = <<>>
    /\ \/ InitAddMargin
       \/ InitGetIndex
       \/ InitGetNearestNeighbour
       \/ InitGetGridReferenceDistance

Finish(out) ==
    /\ pc' = "done"
    /\ raised' = out.raised
    /\ ret' = out.ret
    /\ UNCHANGED <<fn, lats, lons, margin, vector, tensor, coords_rad, mask>>

RunAddMargin ==
    /\ pc = "called" /\ fn = "add_margin"
    /\ Finish(add_margin(lats, lons, margin))

RunGetIndex ==
    /\ pc = "called" /\ fn = "get_index_in_outer_join"
    /\ Finish(get_index_in_outer_join(vector, tensor))

RunGetNearestNeighbour ==
    /\ pc = "called" /\ fn = "get_nearest_neighbour"
    /\ Finish(get_nearest_neighbour(coords_rad, mask))

RunGetGridReferenceDistance ==
    /\ pc = "called" /\ fn = "get_grid_reference_distance"
    /\ Finish(get_grid_reference_distance(coords_rad, mask))

Next ==
    \/ RunAddMargin
    \/ RunGetIndex
    \/ RunGetNearestNeighbour
    \/ RunGetGridReferenceDistance

Spec == Init /\ [][Next]_vars

\* ------------------------------------------------------------ properties
Done(f) == pc = "done" /\ fn = f

SignSet == {-1, 0, 1}

\* the positions of the returned pair of arrays that hold the point (x, y)
PositionsOf(x, y) ==
    {j \in 1..Len(ret[1]) : j <= Len(ret[2]) /\ ret[1][j] = x /\ ret[2][j] = y}

\* the (point, lat offset, lon offset) combinations of the input that give (x, y)
ProducersOf(x, y) ==
    {c \in (1..Len(lats)) \X SignSet \X SignSet :
        lats[c[1]] + c[2] * margin = x /\ lons[c[1]] + c[3] * margin = y}

\* the input points are pairwise different
DistinctPoints ==
    \A i \in 1..Len(lats), j \in 1..Len(lats) :
        (i # j) => (lats[i] # lats[j] \/ lons[i] # lons[j])

\* C1 as stated, read in the way most favourable to it (the points of P are
\* pairwise different): with a positive margin add_margin returns two arrays
\* of length 9*N, and each of the 9 offset variants of each input point is
\* found at exactly one position of the result.
C1_EachVariantExactlyOnce ==
    (Done("add_margin") /\ margin > 0 /\ DistinctPoints) =>
        /\ raised = "none"
        /\ Len(ret[1]) = 9 * Len(lats) /\ Len(ret[2]) = 9 * Len(lats)
        /\ \A i \in 1..Len(lats) : \A a \in SignSet, b \in SignSet :
              Cardinality(PositionsOf(lats[i] + a * margin, lons[i] + b * margin)) = 1

\* C1 amended: with a positive margin add_margin returns two arrays of length
\* 9*N in which each offset variant of each input point is found at exactly as
\* many positions as there are (input index, lat offset, lon offset)
\* combinations that give it: at least once, and exactly once when no other
\* combination gives the same point.
C1_EachVariantOncePerProducer ==
    (Done("add_margin") /\ margin > 0) =>
        /\ raised = "none"
        /\ Len(ret[1]) = 9 * Len(lats) /\ Len(ret[2]) = 9 * Len(lats)
        /\ \A i \in 1..Len(lats) : \A a \in SignSet, b \in SignSet :
              LET x == lats[i] + a * margin
                  y == lons[i] + b * margin
              IN  /\ Cardinality(PositionsOf(x, y)) = Cardinality(ProducersOf(x, y))
                  /\ Cardinality(PositionsOf(x, y)) >= 1

\* a call with a positive margin in which two (point, offset) combinations
\* give the same point
C1_Witness ==
    /\ Done("add_margin") /\ margin > 0 /\ raised = "none"
    /\ Len(lats) = 2 /\ lats[1] # lats[2]
    /\ \E i \in 1..Len(lats) : \E a \in SignSet, b \in SignSet :
          Cardinality(ProducersOf(lats[i] + a * margin, lons[i] + b * margin)) = 2

\* C2: with a positive margin the result is 9 blocks of N points in the order
\* (-1,-1), (-1,0), (-1,+1), (0,-1), (0,0), (0,+1), (+1,-1), (+1,0), (+1,+1):
\* element k*N + i, k = 3*(a+1) + (b+1), is (lats[i] + a*m, lons[i] + b*m);
\* block 4 is the input.
C2_BlocksInLoopOrder ==
    (Done("add_margin") /\ margin > 0) =>
        LET N == Len(lats) IN
        /\ raised = "none"
        /\ Len(ret[1]) = 9 * N /\ Len(ret[2]) = 9 * N
        /\ \A a \in SignSet, b \in SignSet : \A i \in 0..(N - 1) :
              LET k == 3 * (a + 1) + (b + 1) IN
              /\ ret[1][k * N + i + 1] = lats[i + 1] + a * margin
              /\ ret[2][k * N + i + 1] = lons[i + 1] + b * margin
        /\ SubSeq(ret[1], 4 * N + 1, 5 * N) = lats
        /\ SubSeq(ret[2], 4 * N + 1, 5 * N) = lons

C2_Witness ==
    /\ Done("add_margin") /\ margin > 0 /\ raised = "none"
    /\ Len(lats) = 2 /\ lats[1] # lats[2] /\ lons[1] # lons[2]
    /\ Len(ret[1]) = 18

\* C3: with margin 0 add_margin returns its two input arrays as they are
\* (length N, same elements, same order).
C3_ZeroMarginReturnsInput ==
    (Done("add_margin") /\ margin = 0) =>
        /\ raised = "none"
        /\ ret = <<lats, lons>>
        /\ Len(ret[1]) = Len(lats) /\ Len(ret[2]) = Len(lons)

C3_Witness ==
    /\ Done("add_margin") /\ margin = 0 /\ raised = "none"
    /\ Len(lats) >= 1 /\ Len(ret[1]) = Len(lats)

\* C7: add_margin raises the assertion error exactly when the margin is
\* negative, whatever the points (none included), and then returns nothing.
C7_NegativeMarginRaises ==
    Done("add_margin") =>
        /\ (margin < 0) <=> (raised = "AssertionError")
        /\ (margin < 0) => ret = <<>>
        /\ (margin >= 0) => raised = "none"

C7_Witness ==
    /\ Done("add_margin") /\ margin < 0 /\ lats = <<>>
    /\ raised = "AssertionError"

\* the 0-based indices of the rows of the tensor equal to the vector
EqualRows == {i \in 0..(Len(tensor) - 1) : tensor[i + 1] = vector}

\* C4: get_index_in_outer_join returns the index of the row equal to the
\* vector when exactly one row is, and -1 when none is.
C4_UniqueRowOrMinusOne ==
    Done("get_index_in_outer_join") =>
        /\ (Cardinality(EqualRows) = 1) =>
              (raised = "none" /\ ret \in EqualRows /\ tensor[ret + 1] = vector)
        /\ (EqualRows = {}) => (raised = "none" /\ ret = -1)

C4_Witness ==
    /\ Done("get_index_in_outer_join") /\ raised = "none"
    /\ Len(vector) = 2 /\ Len(tensor) = 3
    /\ EqualRows = {1} /\ ret = 1
    /\ \E i \in 1..Len(tensor), j \in 1..Len(vector) :
          tensor[i] # vector /\ tensor[i][j] = vector[j]

\* C10: -1 is returned exactly when no row equals the vector; a returned
\* index i >= 0 is that of the only row equal to the vector; with two or more
\* equal rows the call returns nothing and fails.
C10_MinusOneIffAbsentAndFailsOnDuplicates ==
    Done("get_index_in_outer_join") =>
        /\ (raised = "none" /\ ret = -1) <=> (EqualRows = {})
        /\ (raised = "none" /\ ret >= 0) => EqualRows = {ret}
        /\ (Cardinality(EqualRows) >= 2) <=> (raised = "ConversionError")
        /\ (raised # "none") => ret = <<>>

C10_Witness ==
    /\ Done("get_index_in_outer_join") /\ raised = "ConversionError"
    /\ Cardinality(EqualRows) = 2 /\ Len(tensor) = 3 /\ Len(vector) >= 1

\* ---- the coordinate set of the call
NPoints == Len(coords_rad)
Dist(i, j) == Haversine(coords_rad[i], coords_rad[j])
Coincide(i, j) == Dist(i, j) = 0
MaskAccepted == (~mask.given) \/ mask.shape = <<NPoints, 1>>
SetMax(S) == CHOOSE m \in S : \A x \in S : m >= x
SetMin(S) == CHOOSE m \in S : \A x \in S : m <= x

\* the positive distances from point i to the other points
PositiveDistsFrom(i) ==
    {Dist(i, j) : j \in {k \in 1..NPoints : k # i /\ Dist(i, k) > 0}}

\* the brute-force reference: the largest, over the points, of the point's
\* smallest positive distance to another point
BruteForce ==
    SetMax({SetMin(PositiveDistsFrom(i)) :
                i \in {k \in 1..NPoints : PositiveDistsFrom(k) # {}}})

\* the points that no other point of the set coincides with
Alone == {i \in 1..NPoints : \A j \in 1..NPoints : (j # i) => ~Coincide(i, j)}

\* the smallest distance from point i to any other point
NearestOther(i) == SetMin({Dist(i, j) : j \in (1..NPoints) \ {i}})

\* C5 as stated: on a coordinate set with at least 2 distinct points,
\* coincident points allowed, get_grid_reference_distance returns the
\* brute-force reference.
C5_EqualsBruteForce ==
    (/\ Done("get_grid_reference_distance") /\ MaskAccepted
     /\ \E i \in 1..NPoints, j \in 1..NPoints : ~Coincide(i, j)) =>
        (raised = "none" /\ ret = BruteForce)

\* C5 amended: on a coordinate set of at least 2 points in which some point
\* coincides with no other, get_grid_reference_distance returns the largest,
\* over the points that coincide with no other, of the distance to the
\* nearest other point; that is the brute-force reference whenever no two
\* points of the set coincide.
C5_MaxOverPointsWithoutDuplicate ==
    (Done("get_grid_reference_distance") /\ MaskAccepted /\ NPoints >= 2) =>
        /\ (Alone # {}) =>
              (raised = "none" /\ ret = SetMax({NearestOther(i) : i \in Alone}))
        /\ (Alone = 1..NPoints) => (raised = "none" /\ ret = BruteForce)

\* three different points, the nearest neighbours of two of them closer than
\* those of the third
C5_Witness ==
    /\ Done("get_grid_reference_distance") /\ MaskAccepted /\ raised = "none"
    /\ NPoints >= 3 /\ Alone = 1..NPoints
    /\ \E i \in 1..NPoints : NearestOther(i) < ret
    /\ \E i \in 1..NPoints, j \in 1..NPoints : Dist(i, j) > ret

\* C6: get_nearest_neighbour and get_grid_reference_distance raise the
\* assertion error, and return nothing, exactly when a mask is given whose
\* shape is not (N, 1).
C6_WrongMaskShapeRaises ==
    (Done("get_nearest_neighbour") \/ Done("get_grid_reference_distance")) =>
        /\ (mask.given /\ mask.shape # <<NPoints, 1>>) <=> (raised = "AssertionError")
        /\ (raised = "AssertionError") => ret = <<>>

C6_Witness ==
    /\ Done("get_nearest_neighbour") /\ raised = "AssertionError"
    /\ NPoints = 4 /\ mask.given /\ mask.shape = <<4, 2>>

\* the masks that get_nearest_neighbour accepts for the coordinate set
AcceptedMasks == {m \in Masks : (~m.given) \/ m.shape = <<NPoints, 1>>}

C9_AllCoincidentRaises ==
    (/\ Done("get_grid_reference_distance")
     /\ \A i \in 1..NPoints, j \in 1..NPoints : Coincide(i, j)) =>
        /\ raised \in {"ValueError", "AssertionError"}
        /\ MaskAccepted => raised = "ValueError"
        /\ ret = <<>>

C9_Witness ==
    /\ Done("get_grid_reference_distance") /\ MaskAccepted
    /\ NPoints >= 2 /\ \A i \in 1..NPoints, j \in 1..NPoints : Coincide(i, j)
    /\ raised = "ValueError"
====
